---------------------------- MODULE Spec2Model ----------------------------
(***************************************************************************)
(* The credit ledger of autogpt_platform/backend/backend/data/credit.py:   *)
(* the CreditTransaction table, the balance resolver _get_credits, the     *)
(* locked helpers _add_transaction and _enable_transaction, and the        *)
(* operations of UserCredit (the Standard policy) run by concurrent        *)
(* request handlers.  Every await of the code is one step of a handler.    *)
(***************************************************************************)
EXTENDS Integers, Sequences, FiniteSets, TLC

\* ---- bounds of the model
MaxTx == 2        \* rows of the CreditTransaction table under Spec
MaxLedgerTx == 3  \* rows of the table under SpecLedger
MaxSeqTx == 3     \* rows of the table under SpecSeq
MaxGatewayTx == 2 \* rows of the table under SpecGateway
MaxMonth == 1     \* the last month that begins while no handler writes
MaxAmount == 2    \* largest top-up amount and largest block cost
MaxBetaTx == 3    \* rows of the table under SpecBeta
MaxDay == 2       \* the last day that begins while no handler writes
MaxActivateTx == 4 \* rows of the table under SpecActivate
DayLen == 2       \* clock ticks in one day
MonthLen == 4     \* clock ticks in one calendar month

\* datetime.min, the "no snapshot" time of _get_credits
DatetimeMin == -1

Procs == {"p1", "p2"}      \* concurrent request handlers
Users == {"u1", "u2"}      \* user ids

None == << >>              \* Python None
Some(x) == << x >>         \* a present value
Val(o) == o[1]

VARIABLES
  txs,        \* the CreditTransaction table, in order of creation
  lock,       \* holder of the named lock usr_trx_{user_id}, or "free"
  now,        \* the clock read by time_now()
  sessions,   \* the gateway's checkout sessions: payment_status by session id
  customers,  \* users whose stripeCustomerId is set
  pc,         \* each handler's position
  call,       \* each handler's arguments and local variables
  bal,        \* each handler's user_balance, read under the lock
  ret         \* each handler's outcome once it is done

vars == << txs, lock, now, sessions, customers, pc, call, bal, ret >>

NoCall == [op |-> "none", user_id |-> "none", amount |-> 0, type |-> "none",
           is_active |-> FALSE, transaction_key |-> None]
NoRet == "none"

\* ---- the clock
time_now == now
MonthOf(t) == t \div MonthLen
MonthStart(t) == MonthOf(t) * MonthLen
DateOf(t) == t \div DayLen                 \* datetime.date()
MonthOfDate(d) == (d * DayLen) \div MonthLen  \* (date.year, date.month)

\* ---- the table
RECURSIVE SumAmount(_)
SumAmount(S) ==
  IF S = {} THEN 0
  ELSE LET i == CHOOSE j \in S : TRUE
       IN txs[i].amount + SumAmount(S \ {i})

\* order={"createdAt": "desc"}: the row of S created last
MostRecent(S) == CHOOSE i \in S : \A j \in S : txs[j].createdAt <= txs[i].createdAt

\* mutant: the snapshot is looked for in the current month only
SnapshotRows_ThisMonth(user_id, top_time) ==
  { i \in DOMAIN txs : /\ txs[i].userId = user_id
                       /\ txs[i].createdAt >= MonthStart(top_time)
                       /\ txs[i].createdAt <= top_time
                       /\ txs[i].isActive
                       /\ txs[i].runningBalance # None }

\* mutant: the snapshot search forgets the isActive filter
SnapshotRows_AnyRow(user_id, top_time) ==
  { i \in DOMAIN txs : /\ txs[i].userId = user_id
                       /\ txs[i].createdAt <= top_time
                       /\ txs[i].runningBalance # None }

\* the rows _get_credits' find_first may return for user_id
SnapshotRows(user_id, top_time) ==
  { i \in DOMAIN txs : /\ txs[i].userId = user_id
                       /\ txs[i].createdAt <= top_time
                       /\ txs[i].isActive
                       /\ txs[i].runningBalance # None }

\* mutant: the sum is taken over every month
MonthRows_AnyMonth(user_id, low_time, top_time) ==
  { i \in DOMAIN txs : /\ txs[i].userId = user_id
                       /\ txs[i].createdAt <= top_time
                       /\ txs[i].isActive }

\* the rows _get_credits' group_by sums for user_id
MonthRows(user_id, low_time, top_time) ==
  { i \in DOMAIN txs : /\ txs[i].userId = user_id
                       /\ txs[i].createdAt >= low_time
                       /\ txs[i].createdAt <= top_time
                       /\ txs[i].isActive }

\* _get_credits: the balance of the user and the latest snapshot time
_get_credits(user_id) ==
  LET top_time == time_now
      snaps == SnapshotRows(user_id, top_time)
  IN IF snaps # {}
     THEN [balance |-> Val(txs[MostRecent(snaps)].runningBalance),
           time |-> txs[MostRecent(snaps)].createdAt]
     ELSE [balance |-> SumAmount(MonthRows(user_id, MonthStart(top_time), top_time)),
           time |-> DatetimeMin]

Balance(user_id) == _get_credits(user_id).balance

\* the handler ends: r is "ok" or the error it raises
Finish(p, r) == /\ pc' = [pc EXCEPT ![p] = "done"]
                /\ ret' = [ret EXCEPT ![p] = r]

Init ==
  /\ txs = << >>
  /\ lock = [u \in Users |-> "free"]
  /\ now = 0
  /\ sessions = << >>
  /\ customers = {}
  /\ pc = [p \in Procs |-> "idle"]
  /\ call = [p \in Procs |-> NoCall]
  /\ bal = [p \in Procs |-> 0]
  /\ ret = [p \in Procs |-> NoRet]

\* mutant: the balance is read and the row written without the user's lock
add_transaction_lock_NoLock(p) ==
  /\ pc[p] = "add_lock"
  /\ LET user_balance == _get_credits(call[p].user_id).balance
         amount == call[p].amount
     IN IF amount < 0 /\ user_balance < -amount
        THEN /\ Finish(p, "InsufficientBalance")
             /\ UNCHANGED bal
        ELSE /\ bal' = [bal EXCEPT ![p] = user_balance]
             /\ pc' = [pc EXCEPT ![p] = "add_write"]
             /\ UNCHANGED ret
  /\ UNCHANGED << txs, lock, now, sessions, customers, call >>

\* mutant: the debit is not tested against the balance
add_transaction_lock_NoTest(p) ==
  /\ pc[p] = "add_lock"
  /\ lock[call[p].user_id] = "free"
  /\ lock' = [lock EXCEPT ![call[p].user_id] = p]
  /\ bal' = [bal EXCEPT ![p] = _get_credits(call[p].user_id).balance]
  /\ pc' = [pc EXCEPT ![p] = "add_write"]
  /\ UNCHANGED << txs, now, sessions, customers, call, ret >>

\* mutant: the row of a rejected debit is written before the balance is tested
add_transaction_lock_Partial(p) ==
  /\ pc[p] = "add_lock"
  /\ lock[call[p].user_id] = "free"
  /\ LET user_balance == _get_credits(call[p].user_id).balance
         amount == call[p].amount
     IN IF amount < 0 /\ user_balance < -amount
        THEN /\ Finish(p, "InsufficientBalance")
             /\ txs' = Append(txs, [userId |-> call[p].user_id,
                                    amount |-> amount,
                                    runningBalance |-> Some(user_balance + amount),
                                    type |-> call[p].type,
                                    isActive |-> call[p].is_active,
                                    transactionKey |-> call[p].transaction_key,
                                    createdAt |-> time_now])
             /\ now' = now + 1
             /\ UNCHANGED << lock, bal >>
        ELSE /\ lock' = [lock EXCEPT ![call[p].user_id] = p]
             /\ bal' = [bal EXCEPT ![p] = user_balance]
             /\ pc' = [pc EXCEPT ![p] = "add_write"]
             /\ UNCHANGED << ret, txs, now >>
  /\ UNCHANGED << sessions, customers, call >>

\* mutant: a rejected debit leaves with the user's lock still held
add_transaction_lock_KeepLock(p) ==
  /\ pc[p] = "add_lock"
  /\ lock[call[p].user_id] = "free"
  /\ lock' = [lock EXCEPT ![call[p].user_id] = p]
  /\ LET user_balance == _get_credits(call[p].user_id).balance
         amount == call[p].amount
     IN IF amount < 0 /\ user_balance < -amount
        THEN /\ Finish(p, "InsufficientBalance")
             /\ UNCHANGED bal
        ELSE /\ bal' = [bal EXCEPT ![p] = user_balance]
             /\ pc' = [pc EXCEPT ![p] = "add_write"]
             /\ UNCHANGED ret
  /\ UNCHANGED << txs, now, sessions, customers, call >>

\* mutant: one lock for all users
add_transaction_lock_Global(p) ==
  /\ pc[p] = "add_lock"
  /\ \A u \in Users : lock[u] = "free"
  /\ LET user_balance == _get_credits(call[p].user_id).balance
         amount == call[p].amount
     IN IF amount < 0 /\ user_balance < -amount
        THEN /\ Finish(p, "InsufficientBalance")
             /\ UNCHANGED << lock, bal >>
        ELSE /\ lock' = [lock EXCEPT ![call[p].user_id] = p]
             /\ bal' = [bal EXCEPT ![p] = user_balance]
             /\ pc' = [pc EXCEPT ![p] = "add_write"]
             /\ UNCHANGED ret
  /\ UNCHANGED << txs, now, sessions, customers, call >>

\* mutant: a debit of the whole balance is rejected too
add_transaction_lock_Strict(p) ==
  /\ pc[p] = "add_lock"
  /\ lock[call[p].user_id] = "free"
  /\ LET user_balance == _get_credits(call[p].user_id).balance
         amount == call[p].amount
     IN IF amount < 0 /\ user_balance <= -amount
        THEN /\ Finish(p, "InsufficientBalance")
             /\ UNCHANGED << lock, bal >>
        ELSE /\ lock' = [lock EXCEPT ![call[p].user_id] = p]
             /\ bal' = [bal EXCEPT ![p] = user_balance]
             /\ pc' = [pc EXCEPT ![p] = "add_write"]
             /\ UNCHANGED ret
  /\ UNCHANGED << txs, now, sessions, customers, call >>

\* ---- _add_transaction
\* async with db.locked_transaction, then the balance and the test of it
add_transaction_lock(p) ==
  /\ pc[p] = "add_lock"
  /\ lock[call[p].user_id] = "free"
  /\ LET user_balance == _get_credits(call[p].user_id).balance
         amount == call[p].amount
     IN IF amount < 0 /\ user_balance < -amount
        THEN /\ Finish(p, "InsufficientBalance")
             /\ UNCHANGED << lock, bal >>
        ELSE /\ lock' = [lock EXCEPT ![call[p].user_id] = p]
             /\ bal' = [bal EXCEPT ![p] = user_balance]
             /\ pc' = [pc EXCEPT ![p] = "add_write"]
             /\ UNCHANGED ret
  /\ UNCHANGED << txs, now, sessions, customers, call >>

\* mutant: the row's running balance is its own amount, the balance forgotten
add_transaction_create_NoBalance(p) ==
  /\ pc[p] = "add_write"
  /\ txs' = Append(txs, [userId |-> call[p].user_id,
                         amount |-> call[p].amount,
                         runningBalance |-> Some(call[p].amount),
                         type |-> call[p].type,
                         isActive |-> call[p].is_active,
                         transactionKey |-> call[p].transaction_key,
                         createdAt |-> time_now])
  /\ now' = now + 1
  /\ Finish(p, "ok")
  /\ lock' = [lock EXCEPT ![call[p].user_id] = "free"]
  /\ bal' = [bal EXCEPT ![p] = 0]
  /\ UNCHANGED << sessions, customers, call >>

\* mutant: the lock is not released after the row is created
add_transaction_create_KeepLock(p) ==
  /\ pc[p] = "add_write"
  /\ txs' = Append(txs, [userId |-> call[p].user_id,
                         amount |-> call[p].amount,
                         runningBalance |-> Some(bal[p] + call[p].amount),
                         type |-> call[p].type,
                         isActive |-> call[p].is_active,
                         transactionKey |-> call[p].transaction_key,
                         createdAt |-> time_now])
  /\ now' = now + 1
  /\ Finish(p, "ok")
  /\ bal' = [bal EXCEPT ![p] = 0]
  /\ UNCHANGED << lock, sessions, customers, call >>

add_transaction_create(p) ==
  /\ pc[p] = "add_write"
  /\ LET c == call[p]
         dup == \E i \in DOMAIN txs : /\ c.transaction_key # None
                                      /\ txs[i].transactionKey = c.transaction_key
                                      /\ txs[i].userId = c.user_id
     IN IF dup
        THEN /\ Finish(p, "UniqueViolationError")
             /\ UNCHANGED << txs, now >>
        ELSE /\ txs' = Append(txs, [userId |-> c.user_id,
                                    amount |-> c.amount,
                                    runningBalance |-> Some(bal[p] + c.amount),
                                    type |-> c.type,
                                    isActive |-> c.is_active,
                                    transactionKey |-> c.transaction_key,
                                    createdAt |-> time_now])
             /\ now' = now + 1
             /\ Finish(p, "ok")
  /\ lock' = [lock EXCEPT ![call[p].user_id] = "free"]
  /\ bal' = [bal EXCEPT ![p] = 0]
  /\ UNCHANGED << sessions, customers, call >>

\* ---- the cost engine
\* a BlockInput value: None, a string, a number given by its digits, or a
\* mapping given as its (key, value) pairs
NoneVal == [kind |-> "none", str |-> "", items |-> {}]
Str(s) == [kind |-> "str", str |-> s, items |-> {}]
Dict(pairs) == [kind |-> "dict", str |-> "", items |-> pairs]
Num(digits) == [kind |-> "int", str |-> digits, items |-> {}]

\* mutant: None alone is false
Truthy_NoneOnly(v) == v.kind # "none"

\* Python's truth value of a BlockInput value
Truthy(v) ==
  CASE v.kind = "none" -> FALSE
    [] v.kind = "str" -> v.str # ""
    [] v.kind = "dict" -> v.items # {}
    [] v.kind = "int" -> v.str # "0"

\* input_data.get(k)
Get(d, k) ==
  IF \E kv \in d.items : kv[1] = k
  THEN (CHOOSE kv \in d.items : kv[1] = k)[2]
  ELSE NoneVal

\* mutant: a filter matches the input equal to it only
_is_cost_filter_match_Equal(cost_filter, input_data) == cost_filter = input_data

RECURSIVE _is_cost_filter_match(_, _)
_is_cost_filter_match(cost_filter, input_data) ==
  IF cost_filter.kind # "dict" \/ input_data.kind # "dict"
  THEN cost_filter = input_data
  ELSE \A kv \in cost_filter.items :
          LET k == kv[1]
              v == kv[2]
          IN \/ ~Truthy(Get(input_data, k)) /\ ~Truthy(v)
             \/ Truthy(Get(input_data, k)) /\ _is_cost_filter_match(v, Get(input_data, k))

\* data_size and run_time are floats, here multiples of 1/Scale; int() truncates
\* toward zero
Scale == 2
Trunc_Floor(x) == x \div Scale             \* mutant: int() rounds down
Trunc(x) == IF x >= 0 THEN x \div Scale ELSE -((-x) \div Scale)

\* the registered blocks (get_block) and the cost schedule (BLOCK_COSTS)
Blocks == {"llm", "timer", "store", "free", "chat", "search", "render"}
get_block(block_id) == IF block_id \in Blocks THEN Some(block_id) ELSE None

BLOCK_COSTS ==
  [b \in Blocks \ {"free"} |->
     CASE b = "llm" ->
            << [cost_type |-> "RUN", cost_amount |-> MaxAmount,
                cost_filter |-> Dict({<< "model", Str("gpt-4") >>})],
               [cost_type |-> "RUN", cost_amount |-> 1,
                cost_filter |-> Dict({<< "model", Str("gpt-3.5") >>})] >>
       [] b = "timer" ->
            << [cost_type |-> "SECOND", cost_amount |-> 1, cost_filter |-> Dict({})] >>
       [] b = "store" ->
            << [cost_type |-> "BYTE", cost_amount |-> 1, cost_filter |-> Dict({})] >>
       [] b = "chat" ->
            << [cost_type |-> "RUN", cost_amount |-> MaxAmount,
                cost_filter |-> Dict({<< "model", Str("gpt-4") >>})],
               [cost_type |-> "RUN", cost_amount |-> 1, cost_filter |-> Dict({})] >>
       [] b = "search" ->
            << [cost_type |-> "SECOND", cost_amount |-> 1,
                cost_filter |-> Dict({<< "model", Str("gpt-4") >>})],
               [cost_type |-> "RUN", cost_amount |-> MaxAmount, cost_filter |-> Dict({})] >>
       [] b = "render" ->
            << [cost_type |-> "BYTE", cost_amount |-> MaxAmount + 1,
                cost_filter |-> Dict({})] >>]

\* mutant: the last rule that matches decides
_block_usage_cost_LastMatch(block, input_data, data_size, run_time) ==
  IF block \notin DOMAIN BLOCK_COSTS
  THEN [cost |-> 0, filter |-> Dict({})]
  ELSE LET block_costs == BLOCK_COSTS[block]
           matching == { i \in DOMAIN block_costs :
                           _is_cost_filter_match(block_costs[i].cost_filter, input_data) }
       IN IF matching = {}
          THEN [cost |-> 0, filter |-> Dict({})]
          ELSE LET block_cost == block_costs[CHOOSE i \in matching : \A j \in matching : i >= j]
               IN CASE block_cost.cost_type = "RUN" ->
                         [cost |-> block_cost.cost_amount, filter |-> block_cost.cost_filter]
                    [] block_cost.cost_type = "SECOND" ->
                         [cost |-> Trunc(run_time * block_cost.cost_amount),
                          filter |-> block_cost.cost_filter]
                    [] block_cost.cost_type = "BYTE" ->
                         [cost |-> Trunc(data_size * block_cost.cost_amount),
                          filter |-> block_cost.cost_filter]

\* _block_usage_cost: the cost and the filter of the first rule that matches
_block_usage_cost(block, input_data, data_size, run_time) ==
  IF block \notin DOMAIN BLOCK_COSTS
  THEN [cost |-> 0, filter |-> Dict({})]
  ELSE LET block_costs == BLOCK_COSTS[block]
           matching == { i \in DOMAIN block_costs :
                           _is_cost_filter_match(block_costs[i].cost_filter, input_data) }
       IN IF matching = {}
          THEN [cost |-> 0, filter |-> Dict({})]
          ELSE LET block_cost == block_costs[CHOOSE i \in matching : \A j \in matching : i <= j]
               IN CASE block_cost.cost_type = "RUN" ->
                         [cost |-> block_cost.cost_amount, filter |-> block_cost.cost_filter]
                    [] block_cost.cost_type = "SECOND" ->
                         [cost |-> Trunc(run_time * block_cost.cost_amount),
                          filter |-> block_cost.cost_filter]
                    [] block_cost.cost_type = "BYTE" ->
                         [cost |-> Trunc(data_size * block_cost.cost_amount),
                          filter |-> block_cost.cost_filter]

\* the block invocations the execution engine reports
Invocations ==
  << [block_id |-> "ghost", input_data |-> Dict({}), data_size |-> 0, run_time |-> 0],
     [block_id |-> "free", input_data |-> Dict({<< "model", Str("gpt-4") >>}),
      data_size |-> 2, run_time |-> 2],
     [block_id |-> "llm", input_data |-> Dict({<< "model", Str("claude") >>}),
      data_size |-> 2, run_time |-> 2],
     [block_id |-> "llm",
      input_data |-> Dict({<< "model", Str("gpt-4") >>, << "temperature", Str("0.2") >>}),
      data_size |-> 2, run_time |-> 2],
     [block_id |-> "llm", input_data |-> Dict({<< "model", Str("gpt-3.5") >>}),
      data_size |-> 2, run_time |-> 2],
     [block_id |-> "timer", input_data |-> Dict({}), data_size |-> 0, run_time |-> 3],
     [block_id |-> "store", input_data |-> Dict({}), data_size |-> 5, run_time |-> 0] >>

\* mutant: a cost of 0 is charged like any other
spend_credits_NoZeroTest(p, user_id, block_id, input_data, data_size, run_time) ==
  /\ pc[p] = "idle"
  /\ IF get_block(block_id) = None
     THEN /\ Finish(p, "ValueError")
          /\ UNCHANGED call
     ELSE LET cost == _block_usage_cost(Val(get_block(block_id)), input_data,
                                        data_size, run_time).cost
          IN /\ call' = [call EXCEPT ![p] =
                           [op |-> "spend_credits", user_id |-> user_id, amount |-> -cost,
                            type |-> "USAGE", is_active |-> TRUE, transaction_key |-> None]]
             /\ pc' = [pc EXCEPT ![p] = "add_lock"]
             /\ UNCHANGED ret
  /\ UNCHANGED << txs, lock, now, sessions, customers, bal >>

\* ---- UserCredit.spend_credits; the call returns the cost, -call[p].amount
spend_credits(p, user_id, block_id, input_data, data_size, run_time) ==
  /\ pc[p] = "idle"
  /\ IF get_block(block_id) = None
     THEN /\ Finish(p, "ValueError")
          /\ UNCHANGED call
     ELSE LET cost == _block_usage_cost(Val(get_block(block_id)), input_data,
                                        data_size, run_time).cost
          IN IF cost = 0
             THEN /\ Finish(p, "ok")
                  /\ call' = [call EXCEPT ![p] =
                                [NoCall EXCEPT !.op = "spend_credits", !.user_id = user_id]]
             ELSE /\ call' = [call EXCEPT ![p] =
                                [op |-> "spend_credits", user_id |-> user_id,
                                 amount |-> -cost, type |-> "USAGE", is_active |-> TRUE,
                                 transaction_key |-> None]]
                  /\ pc' = [pc EXCEPT ![p] = "add_lock"]
                  /\ UNCHANGED ret
  /\ UNCHANGED << txs, lock, now, sessions, customers, bal >>

\* ---- UserCredit.top_up_credits
top_up_credits(p, user_id, amount) ==
  /\ pc[p] = "idle"
  /\ IF amount < 0
     THEN /\ Finish(p, "ValueError")
          /\ UNCHANGED call
     ELSE /\ call' = [call EXCEPT ![p] =
                        [op |-> "top_up_credits", user_id |-> user_id, amount |-> amount,
                         type |-> "TOP_UP", is_active |-> TRUE, transaction_key |-> None]]
          /\ pc' = [pc EXCEPT ![p] = "add_lock"]
          /\ UNCHANGED ret
  /\ UNCHANGED << txs, lock, now, sessions, customers, bal >>

\* mutant: the pending row is staked before the checkout session is created
top_up_intent_StakeFirst(p, user_id, amount) ==
  /\ pc[p] = "idle"
  /\ customers' = customers \cup {user_id}
  /\ call' = [call EXCEPT ![p] =
                [op |-> "top_up_intent", user_id |-> user_id, amount |-> amount,
                 type |-> "TOP_UP", is_active |-> FALSE, transaction_key |-> None]]
  /\ txs' = Append(txs, [userId |-> user_id, amount |-> amount,
                         runningBalance |-> Some(_get_credits(user_id).balance + amount),
                         type |-> "TOP_UP", isActive |-> FALSE,
                         transactionKey |-> None, createdAt |-> time_now])
  /\ now' = now + 1
  /\ pc' = [pc EXCEPT ![p] = "ti_session"]
  /\ UNCHANGED << lock, sessions, bal, ret >>

\* ---- UserCredit.top_up_intent, with _get_stripe_customer_id
top_up_intent(p, user_id, amount) ==
  /\ pc[p] = "idle"
  /\ customers' = customers \cup {user_id}
  /\ call' = [call EXCEPT ![p] =
                [op |-> "top_up_intent", user_id |-> user_id, amount |-> amount,
                 type |-> "TOP_UP", is_active |-> FALSE, transaction_key |-> None]]
  /\ pc' = [pc EXCEPT ![p] = "ti_session"]
  /\ UNCHANGED << txs, lock, now, sessions, bal, ret >>

\* stripe.Customer.create raises: the user has no customer id and gets none
create_customer_error(p, user_id, amount) ==
  /\ pc[p] = "idle"
  /\ user_id \notin customers
  /\ call' = [call EXCEPT ![p] =
                [op |-> "top_up_intent", user_id |-> user_id, amount |-> amount,
                 type |-> "TOP_UP", is_active |-> FALSE, transaction_key |-> None]]
  /\ Finish(p, "StripeError")
  /\ UNCHANGED << txs, lock, now, sessions, customers, bal >>

\* stripe.checkout.Session.create raises: no session is opened
create_checkout_session_error(p) ==
  /\ pc[p] = "ti_session"
  /\ Finish(p, "StripeError")
  /\ UNCHANGED << txs, lock, now, sessions, customers, call, bal >>

\* stripe.checkout.Session.create: the gateway opens a session, not yet paid
create_checkout_session(p) ==
  /\ pc[p] = "ti_session"
  /\ sessions' = Append(sessions, "unpaid")
  /\ call' = [call EXCEPT ![p].transaction_key = Some(Len(sessions) + 1)]
  /\ pc' = [pc EXCEPT ![p] = "add_lock"]
  /\ UNCHANGED << txs, lock, now, customers, bal, ret >>

\* the customer completes the checkout at the gateway
gateway_payment(s, status) ==
  /\ sessions[s] = "unpaid"
  /\ sessions' = [sessions EXCEPT ![s] = status]
  /\ UNCHANGED << txs, lock, now, customers, pc, call, bal, ret >>

\* mutant: the lookup forgets the userId filter
PendingTopUps_AnyUser(session_id, user_id) ==
  { i \in DOMAIN txs : /\ txs[i].type = "TOP_UP"
                       /\ ~txs[i].isActive
                       /\ (session_id # None => txs[i].transactionKey = session_id) }

\* ---- UserCredit.fulfill_checkout
\* the rows find_first_or_raise(where=find_filter) may return
PendingTopUps(session_id, user_id) ==
  { i \in DOMAIN txs : /\ txs[i].type = "TOP_UP"
                       /\ ~txs[i].isActive
                       /\ (session_id # None => txs[i].transactionKey = session_id)
                       /\ (user_id # None => txs[i].userId = Val(user_id)) }

\* the arguments of a call that ends before it has found a row
FulfillArgs(session_id, user_id) ==
  [NoCall EXCEPT !.op = "fulfill_checkout", !.transaction_key = session_id,
                 !.user_id = IF user_id = None THEN "none" ELSE Val(user_id)]

\* mutant: the row is looked up before the arguments are validated
fulfill_checkout_LookupFirst(p, session_id, user_id) ==
  /\ pc[p] = "idle"
  /\ IF PendingTopUps(session_id, user_id) = {}
     THEN /\ Finish(p, "RecordNotFoundError")
          /\ call' = [call EXCEPT ![p] = FulfillArgs(session_id, user_id)]
     ELSE LET credit_transaction == txs[MostRecent(PendingTopUps(session_id, user_id))]
          IN /\ call' = [call EXCEPT ![p] =
                           [op |-> "fulfill_checkout",
                            user_id |-> credit_transaction.userId,
                            amount |-> 0, type |-> "TOP_UP", is_active |-> FALSE,
                            transaction_key |-> credit_transaction.transactionKey]]
             /\ pc' = [pc EXCEPT ![p] = "ff_retrieve"]
             /\ UNCHANGED ret
  /\ UNCHANGED << txs, lock, now, sessions, customers, bal >>

fulfill_checkout(p, session_id, user_id) ==
  /\ pc[p] = "idle"
  /\ IF (session_id = None /\ user_id = None) \/ (session_id # None /\ user_id # None)
     THEN /\ Finish(p, "ValueError")
          /\ call' = [call EXCEPT ![p] = FulfillArgs(session_id, user_id)]
     ELSE IF PendingTopUps(session_id, user_id) = {}
     THEN /\ Finish(p, "RecordNotFoundError")
          /\ call' = [call EXCEPT ![p] = FulfillArgs(session_id, user_id)]
     ELSE LET credit_transaction == txs[MostRecent(PendingTopUps(session_id, user_id))]
          IN /\ call' = [call EXCEPT ![p] =
                           [op |-> "fulfill_checkout",
                            user_id |-> credit_transaction.userId,
                            amount |-> 0, type |-> "TOP_UP", is_active |-> FALSE,
                            transaction_key |-> credit_transaction.transactionKey]]
             /\ pc' = [pc EXCEPT ![p] = "ff_retrieve"]
             /\ UNCHANGED ret
  /\ UNCHANGED << txs, lock, now, sessions, customers, bal >>

\* mutant: the transaction is enabled whatever the payment status
retrieve_session_AnyStatus(p) ==
  /\ pc[p] = "ff_retrieve"
  /\ pc' = [pc EXCEPT ![p] = "en_find"]
  /\ UNCHANGED << txs, lock, now, sessions, customers, call, bal, ret >>

\* stripe.checkout.Session.retrieve and the payment_status test
retrieve_session(p) ==
  /\ pc[p] = "ff_retrieve"
  /\ IF sessions[Val(call[p].transaction_key)] \in {"paid", "no_payment_required"}
     THEN /\ pc' = [pc EXCEPT ![p] = "en_find"]
          /\ UNCHANGED ret
     ELSE Finish(p, "ok")
  /\ UNCHANGED << txs, lock, now, sessions, customers, call, bal >>

\* stripe.checkout.Session.retrieve raises
retrieve_session_error(p) ==
  /\ pc[p] = "ff_retrieve"
  /\ Finish(p, "StripeError")
  /\ UNCHANGED << txs, lock, now, sessions, customers, call, bal >>

\* ---- _enable_transaction
\* the row with the unique key (transactionKey, userId)
RowOf(transaction_key, user_id) ==
  CHOOSE i \in DOMAIN txs : /\ txs[i].transactionKey = transaction_key
                            /\ txs[i].userId = user_id

enable_transaction_find(p) ==
  /\ pc[p] = "en_find"
  /\ LET transaction == txs[RowOf(call[p].transaction_key, call[p].user_id)]
     IN IF transaction.isActive
        THEN /\ Finish(p, "ok")
             /\ UNCHANGED call
        ELSE /\ call' = [call EXCEPT ![p].amount = transaction.amount]
             /\ pc' = [pc EXCEPT ![p] = "en_lock"]
             /\ UNCHANGED ret
  /\ UNCHANGED << txs, lock, now, sessions, customers, bal >>

\* mutant: the session is retrieved from the gateway inside the lock
enable_transaction_lock_Retrieve(p) ==
  /\ pc[p] = "en_lock"
  /\ lock[call[p].user_id] = "free"
  /\ lock' = [lock EXCEPT ![call[p].user_id] = p]
  /\ bal' = [bal EXCEPT ![p] = _get_credits(call[p].user_id).balance]
  /\ pc' = [pc EXCEPT ![p] = "ff_retrieve"]
  /\ UNCHANGED << txs, now, sessions, customers, call, ret >>

\* mutant: the balance is read and the row updated outside the lock
enable_transaction_lock_NoLock(p) ==
  /\ pc[p] = "en_lock"
  /\ bal' = [bal EXCEPT ![p] = _get_credits(call[p].user_id).balance]
  /\ pc' = [pc EXCEPT ![p] = "en_update"]
  /\ UNCHANGED << txs, lock, now, sessions, customers, call, ret >>

enable_transaction_lock(p) ==
  /\ pc[p] = "en_lock"
  /\ lock[call[p].user_id] = "free"
  /\ lock' = [lock EXCEPT ![call[p].user_id] = p]
  /\ bal' = [bal EXCEPT ![p] = _get_credits(call[p].user_id).balance]
  /\ pc' = [pc EXCEPT ![p] = "en_update"]
  /\ UNCHANGED << txs, now, sessions, customers, call, ret >>

\* mutant: the update forgets isActive = True
enable_transaction_update_NotActivated(p) ==
  /\ pc[p] = "en_update"
  /\ txs' = [txs EXCEPT ![RowOf(call[p].transaction_key, call[p].user_id)] =
               [@ EXCEPT !.runningBalance = Some(bal[p] + call[p].amount),
                         !.createdAt = time_now]]
  /\ now' = now + 1
  /\ lock' = [lock EXCEPT ![call[p].user_id] = "free"]
  /\ bal' = [bal EXCEPT ![p] = 0]
  /\ Finish(p, "ok")
  /\ UNCHANGED << sessions, customers, call >>

\* mutant: the row is activated with the running balance it was created with
enable_transaction_update_Stale(p) ==
  /\ pc[p] = "en_update"
  /\ txs' = [txs EXCEPT ![RowOf(call[p].transaction_key, call[p].user_id)] =
               [@ EXCEPT !.isActive = TRUE, !.createdAt = time_now]]
  /\ now' = now + 1
  /\ lock' = [lock EXCEPT ![call[p].user_id] = "free"]
  /\ bal' = [bal EXCEPT ![p] = 0]
  /\ Finish(p, "ok")
  /\ UNCHANGED << sessions, customers, call >>

enable_transaction_update(p) ==
  /\ pc[p] = "en_update"
  /\ txs' = [txs EXCEPT ![RowOf(call[p].transaction_key, call[p].user_id)] =
               [@ EXCEPT !.isActive = TRUE,
                         !.runningBalance = Some(bal[p] + call[p].amount),
                         !.createdAt = time_now]]
  /\ now' = now + 1
  /\ lock' = [lock EXCEPT ![call[p].user_id] = "free"]
  /\ bal' = [bal EXCEPT ![p] = 0]
  /\ Finish(p, "ok")
  /\ UNCHANGED << sessions, customers, call >>

\* ---- UserCredit.get_credits
get_credits(p, user_id) ==
  /\ pc[p] = "idle"
  /\ call' = [call EXCEPT ![p] = [NoCall EXCEPT !.op = "get_credits", !.user_id = user_id]]
  /\ bal' = [bal EXCEPT ![p] = _get_credits(user_id).balance]
  /\ Finish(p, "ok")
  /\ UNCHANGED << txs, lock, now, sessions, customers >>

\* ---- BetaUserCredit
\* num_user_credits_refill, the configured amount of the monthly refill
RefillAmount == 2

RefillKey(cur_time) == Some(<< "MONTHLY-CREDIT-TOP-UP", cur_time >>)

\* mutant: the refill is created whatever the month of the latest snapshot
beta_get_credits_AlwaysRefill(p, user_id) ==
  /\ pc[p] = "idle"
  /\ call' = [call EXCEPT ![p] =
                [op |-> "get_credits", user_id |-> user_id, amount |-> RefillAmount,
                 type |-> "TOP_UP", is_active |-> TRUE,
                 transaction_key |-> RefillKey(DateOf(time_now))]]
  /\ pc' = [pc EXCEPT ![p] = "refill_create"]
  /\ UNCHANGED << txs, lock, now, sessions, customers, bal, ret >>

\* BetaUserCredit.get_credits: the balance, and the test of the snapshot's month
beta_get_credits(p, user_id) ==
  /\ pc[p] = "idle"
  /\ LET cur_time == DateOf(time_now)
         credits == _get_credits(user_id)
     IN IF MonthOf(credits.time) = MonthOfDate(cur_time)
        THEN /\ call' = [call EXCEPT ![p] =
                           [NoCall EXCEPT !.op = "get_credits", !.user_id = user_id]]
             /\ bal' = [bal EXCEPT ![p] = credits.balance]
             /\ Finish(p, "ok")
        ELSE /\ call' = [call EXCEPT ![p] =
                           [op |-> "get_credits", user_id |-> user_id,
                            amount |-> RefillAmount, type |-> "TOP_UP",
                            is_active |-> TRUE, transaction_key |-> RefillKey(cur_time)]]
             /\ pc' = [pc EXCEPT ![p] = "refill_create"]
             /\ UNCHANGED << bal, ret >>
  /\ UNCHANGED << txs, lock, now, sessions, customers >>

\* mutant: the refill is added to the balance the user has
beta_refill_create_Adds(p) ==
  /\ pc[p] = "refill_create"
  /\ LET c == call[p]
         dup == \E i \in DOMAIN txs : /\ txs[i].transactionKey = c.transaction_key
                                      /\ txs[i].userId = c.user_id
     IN IF dup
        THEN UNCHANGED << txs, now >>
        ELSE /\ txs' = Append(txs, [userId |-> c.user_id,
                                    amount |-> RefillAmount,
                                    runningBalance |-> Some(Balance(c.user_id) + RefillAmount),
                                    type |-> "TOP_UP",
                                    isActive |-> TRUE,
                                    transactionKey |-> c.transaction_key,
                                    createdAt |-> time_now])
             /\ now' = now + 1
  /\ bal' = [bal EXCEPT ![p] = RefillAmount]
  /\ Finish(p, "ok")
  /\ UNCHANGED << lock, sessions, customers, call >>

\* the refill is created, a UniqueViolationError passed over; the call returns
\* num_user_credits_refill
beta_refill_create(p) ==
  /\ pc[p] = "refill_create"
  /\ LET c == call[p]
         dup == \E i \in DOMAIN txs : /\ txs[i].transactionKey = c.transaction_key
                                      /\ txs[i].userId = c.user_id
     IN IF dup
        THEN UNCHANGED << txs, now >>
        ELSE /\ txs' = Append(txs, [userId |-> c.user_id,
                                    amount |-> RefillAmount,
                                    runningBalance |-> Some(RefillAmount),
                                    type |-> "TOP_UP",
                                    isActive |-> TRUE,
                                    transactionKey |-> c.transaction_key,
                                    createdAt |-> time_now])
             /\ now' = now + 1
  /\ bal' = [bal EXCEPT ![p] = RefillAmount]
  /\ Finish(p, "ok")
  /\ UNCHANGED << lock, sessions, customers, call >>

\* ---- DisabledUserCredit: every method takes any arguments and returns a
\* literal; ret holds the value returned
Disabled(p, args, value) ==
  /\ pc[p] = "idle"
  /\ call' = [call EXCEPT ![p] = args]
  /\ Finish(p, value)
  /\ UNCHANGED << txs, lock, now, sessions, customers, bal >>

disabled_get_credits(p, user_id) ==
  Disabled(p, [NoCall EXCEPT !.op = "get_credits", !.user_id = user_id], "0")

disabled_spend_credits(p, user_id, block_id, input_data, data_size, run_time) ==
  Disabled(p, [NoCall EXCEPT !.op = "spend_credits", !.user_id = user_id,
                             !.type = "USAGE"], "0")

\* mutant: the Disabled policy tops up as the Standard policy does
disabled_top_up_credits_Standard(p, user_id, amount) ==
  top_up_credits(p, user_id, amount)

disabled_top_up_credits(p, user_id, amount) ==
  Disabled(p, [NoCall EXCEPT !.op = "top_up_credits", !.user_id = user_id,
                             !.amount = amount, !.type = "TOP_UP"], "None")

disabled_top_up_intent(p, user_id, amount) ==
  Disabled(p, [NoCall EXCEPT !.op = "top_up_intent", !.user_id = user_id,
                             !.amount = amount, !.type = "TOP_UP"], "")

disabled_fulfill_checkout(p, session_id, user_id) ==
  Disabled(p, FulfillArgs(session_id, user_id), "None")

\* the caller takes the outcome; the handler is free for the next request
Return(p) ==
  /\ pc[p] = "done"
  /\ pc' = [pc EXCEPT ![p] = "idle"]
  /\ call' = [call EXCEPT ![p] = NoCall]
  /\ bal' = [bal EXCEPT ![p] = 0]
  /\ ret' = [ret EXCEPT ![p] = NoRet]
  /\ UNCHANGED << txs, lock, now, sessions, customers >>

\* the arguments a caller may pass to fulfill_checkout
SessionArgs == {None} \cup { Some(s) : s \in DOMAIN sessions }
UserArgs(U) == {None} \cup { Some(u) : u \in U }

\* rows the operations in flight will still add, and the room left for one more
\* in a table of at most cap rows
Adding == { q \in Procs : pc[q] \in {"ti_session", "add_lock", "add_write", "refill_create"} }
Room(cap) == Len(txs) + Cardinality(Adding) < cap

\* the execution engine charges user u for the invocation inv
Spend(p, u, inv) ==
  spend_credits(p, u, inv.block_id, inv.input_data, inv.data_size, inv.run_time)

\* a request of a user of U for the ledger's own operations arrives at handler p
LedgerRequest(p, cap, U) ==
  \/ \E u \in U, k \in DOMAIN Invocations :
        Room(cap) /\ Spend(p, u, Invocations[k])
  \/ \E u \in U, amount \in -1..MaxAmount : Room(cap) /\ top_up_credits(p, u, amount)
  \/ \E u \in U : get_credits(p, u)

\* a request of the payment flow for a user of U arrives at handler p
PaymentRequest(p, cap, U) ==
  \/ \E u \in U, amount \in 1..MaxAmount : Room(cap) /\ top_up_intent(p, u, amount)
  \/ \E session_id \in SessionArgs, user_id \in UserArgs(U) :
        fulfill_checkout(p, session_id, user_id)

\* handler p takes its next step
LedgerStep(p) ==
  \/ add_transaction_lock(p)
  \/ add_transaction_create(p)
  \/ Return(p)

PaymentStep(p) ==
  \/ create_checkout_session(p)
  \/ retrieve_session(p)
  \/ enable_transaction_find(p)
  \/ enable_transaction_lock(p)
  \/ enable_transaction_update(p)

Gateway ==
  \E s \in DOMAIN sessions, status \in {"paid", "no_payment_required"} :
     gateway_payment(s, status)

\* time passes while no handler writes: the next calendar month begins
Tick ==
  /\ MonthOf(now) < MaxMonth
  /\ now' = MonthStart(now) + MonthLen
  /\ UNCHANGED << txs, lock, sessions, customers, pc, call, bal, ret >>

\* ---- every operation of UserCredit for one user, by concurrent handlers
Next ==
  \/ \E p \in Procs : LedgerRequest(p, MaxTx, {"u1"}) \/ LedgerStep(p)
  \/ \E p \in Procs : PaymentRequest(p, MaxTx, {"u1"}) \/ PaymentStep(p)
  \/ Gateway

Spec == Init /\ [][Next]_vars

\* ---- spend_credits, top_up_credits and get_credits of every user, by
\* concurrent handlers
LedgerNext == \E p \in Procs : LedgerRequest(p, MaxLedgerTx, Users) \/ LedgerStep(p)

SpecLedger == Init /\ [][LedgerNext]_vars

\* ---- every operation for one user, one call after the other, as the months pass
SeqNext ==
  \/ LedgerRequest("p1", MaxSeqTx, {"u1"}) \/ LedgerStep("p1")
  \/ PaymentRequest("p1", MaxSeqTx, {"u1"}) \/ PaymentStep("p1")
  \/ Gateway
  \/ Tick

SpecSeq == Init /\ [][SeqNext]_vars

\* ---- every operation for one user, one call after the other, the gateway
\* failing at any of its calls and top_up_intent taking any amount
GatewayRequest(p, cap, U) ==
  \/ \E u \in U, amount \in -1..MaxAmount :
        Room(cap) /\ Len(sessions) < cap /\ top_up_intent(p, u, amount)
  \/ \E u \in U, amount \in -1..MaxAmount : create_customer_error(p, u, amount)
  \/ \E session_id \in SessionArgs, user_id \in UserArgs(U) :
        fulfill_checkout(p, session_id, user_id)

GatewayError(p) ==
  \/ create_checkout_session_error(p)
  \/ retrieve_session_error(p)

GatewayNext ==
  \/ LedgerRequest("p1", MaxGatewayTx, {"u1"}) \/ LedgerStep("p1")
  \/ GatewayRequest("p1", MaxGatewayTx, {"u1"}) \/ PaymentStep("p1")
  \/ GatewayError("p1")
  \/ Gateway

SpecGateway == Init /\ [][GatewayNext]_vars

\* ---- the Beta-monthly-refill policy: get_credits, spend_credits and
\* top_up_credits of one user, by concurrent handlers, as the days pass
NextDay ==
  /\ DateOf(now) < MaxDay
  /\ now' = (DateOf(now) + 1) * DayLen
  /\ UNCHANGED << txs, lock, sessions, customers, pc, call, bal, ret >>

BetaRequest(p, cap, U) ==
  \/ \E u \in U : beta_get_credits(p, u) /\ (Room(cap) \/ pc'[p] = "done")
  \/ \E u \in U, k \in DOMAIN Invocations : Room(cap) /\ Spend(p, u, Invocations[k])
  \/ \E u \in U, amount \in -1..MaxAmount : Room(cap) /\ top_up_credits(p, u, amount)

BetaNext ==
  \/ \E p \in Procs : BetaRequest(p, MaxBetaTx, {"u1"}) \/ beta_refill_create(p)
  \/ \E p \in Procs : LedgerStep(p)
  \/ NextDay

SpecBeta == Init /\ [][BetaNext]_vars

\* ---- operations that take a lock, of both users, each handler serving one
\* call and scheduled fairly; user u1 has a balance, and both users a pending
\* top-up whose session is paid
InitFair ==
  /\ txs = << [userId |-> "u1", amount |-> MaxAmount,
               runningBalance |-> Some(MaxAmount), type |-> "TOP_UP",
               isActive |-> TRUE, transactionKey |-> None, createdAt |-> 0],
              [userId |-> "u1", amount |-> 1,
               runningBalance |-> Some(MaxAmount + 1), type |-> "TOP_UP",
               isActive |-> FALSE, transactionKey |-> Some(1), createdAt |-> 1],
              [userId |-> "u2", amount |-> 1,
               runningBalance |-> Some(1), type |-> "TOP_UP",
               isActive |-> FALSE, transactionKey |-> Some(2), createdAt |-> 2] >>
  /\ lock = [u \in Users |-> "free"]
  /\ now = 3
  /\ sessions = << "paid", "paid" >>
  /\ customers = Users
  /\ pc = [p \in Procs |-> "idle"]
  /\ call = [p \in Procs |-> NoCall]
  /\ bal = [p \in Procs |-> 0]
  /\ ret = [p \in Procs |-> NoRet]

FairRequest(p) ==
  \/ \E u \in Users, k \in DOMAIN Invocations : Spend(p, u, Invocations[k])
  \/ \E u \in Users, amount \in 0..MaxAmount : top_up_credits(p, u, amount)
  \/ \E u \in Users, amount \in 1..MaxAmount : top_up_intent(p, u, amount)
  \/ \E s \in DOMAIN sessions : fulfill_checkout(p, Some(s), None)

\* the steps of a handler inside an operation
HandlerStep(p) ==
  \/ add_transaction_lock(p)
  \/ add_transaction_create(p)
  \/ PaymentStep(p)

FairNext == \E p \in Procs : FairRequest(p) \/ HandlerStep(p)

\* a handler that can take a step of its operation eventually takes one
SpecFair == InitFair /\ [][FairNext]_vars /\ \A p \in Procs : WF_vars(HandlerStep(p))

\* ---- the Disabled policy, on an empty table or on the table a Standard
\* policy has left, its sessions paid
DisabledRequest(p) ==
  \/ \E u \in Users : disabled_get_credits(p, u)
  \/ \E u \in Users, k \in DOMAIN Invocations :
        disabled_spend_credits(p, u, Invocations[k].block_id, Invocations[k].input_data,
                               Invocations[k].data_size, Invocations[k].run_time)
  \/ \E u \in Users, amount \in -1..MaxAmount : disabled_top_up_credits(p, u, amount)
  \/ \E u \in Users, amount \in -1..MaxAmount : disabled_top_up_intent(p, u, amount)
  \/ \E session_id \in SessionArgs, user_id \in UserArgs(Users) :
        disabled_fulfill_checkout(p, session_id, user_id)

DisabledNext == \E p \in Procs : DisabledRequest(p) \/ Return(p)

SpecDisabled == (Init \/ InitFair) /\ [][DisabledNext]_vars

\* ---- the cost engine alone: one handler is given the arguments of a call
\* of _block_usage_cost or of _is_cost_filter_match, and makes it
ModelValues ==
  { NoneVal, Str(""), Str("gpt-4"), Str("gpt-3.5"), Num("0"), Num("1"), Dict({}),
    Dict({<< "name", Str("gpt-4") >>}),
    Dict({<< "name", Str("gpt-4") >>, << "temperature", Str("0.2") >>}) }

\* the mappings with at most the keys model and temperature
BlockInputs ==
  { Dict(ms \cup ts) :
      ms \in {{}} \cup { {<< "model", v >>} : v \in ModelValues },
      ts \in { {}, {<< "temperature", Str("") >>}, {<< "temperature", Str("0.2") >>} } }

\* what _is_cost_filter_match is given, at the top or as it descends
FilterArgs == BlockInputs \cup { NoneVal, Str("gpt-4") }

\* data_size and run_time, in units of 1/Scale
Floats == { -3, 0, 1, 3, 5 }

CostCalls ==
  [op : {"_block_usage_cost"}, block : Blocks, input_data : BlockInputs,
   data_size : Floats, run_time : Floats]

MatchCalls ==
  [op : {"_is_cost_filter_match"}, cost_filter : FilterArgs, input_data : FilterArgs]

InitCost ==
  /\ txs = << >>
  /\ lock = [u \in Users |-> "free"]
  /\ now = 0
  /\ sessions = << >>
  /\ customers = {}
  /\ \E c \in CostCalls \cup MatchCalls :
        /\ call = [p \in Procs |-> IF p = "p1" THEN c ELSE NoCall]
        /\ pc = [p \in Procs |-> IF p = "p1" THEN "called" ELSE "idle"]
  /\ bal = [p \in Procs |-> 0]
  /\ ret = [p \in Procs |-> NoRet]

call_block_usage_cost(p) ==
  /\ pc[p] = "called"
  /\ call[p].op = "_block_usage_cost"
  /\ Finish(p, _block_usage_cost(call[p].block, call[p].input_data,
                                 call[p].data_size, call[p].run_time))
  /\ UNCHANGED << txs, lock, now, sessions, customers, call, bal >>

call_is_cost_filter_match(p) ==
  /\ pc[p] = "called"
  /\ call[p].op = "_is_cost_filter_match"
  /\ Finish(p, _is_cost_filter_match(call[p].cost_filter, call[p].input_data))
  /\ UNCHANGED << txs, lock, now, sessions, customers, call, bal >>

CostNext == \E p \in Procs : call_block_usage_cost(p) \/ call_is_cost_filter_match(p)

SpecCost == InitCost /\ [][CostNext]_vars

\* ---- the Balance Resolver alone: a table of three rows, of last month, of
\* the first instant of this month and of its last, some of them of the time
\* before rows had a running balance; one handler is given a user and
\* resolves at a time as_of
ResolverTimes == << MonthLen - 2, MonthLen, 2 * MonthLen - 1 >>

ResolverRows(t) ==
  [userId : Users, amount : {-1, MaxAmount}, runningBalance : {None, Some(0), Some(3)},
   type : {"TOP_UP"}, isActive : BOOLEAN, transactionKey : {None}, createdAt : {t}]

InitResolver ==
  /\ \E r1 \in ResolverRows(ResolverTimes[1]), r2 \in ResolverRows(ResolverTimes[2]),
        r3 \in ResolverRows(ResolverTimes[3]) : txs = << r1, r2, r3 >>
  /\ lock = [u \in Users |-> "free"]
  /\ now \in {MonthLen - 1, MonthLen + 1, 2 * MonthLen - 1}
  /\ sessions = << >>
  /\ customers = {}
  /\ pc = [p \in Procs |-> IF p = "p1" THEN "called" ELSE "idle"]
  /\ call = [p \in Procs |-> IF p = "p1"
                             THEN [NoCall EXCEPT !.op = "_get_credits", !.user_id = "u1"]
                             ELSE NoCall]
  /\ bal = [p \in Procs |-> 0]
  /\ ret = [p \in Procs |-> NoRet]

call_get_credits(p) ==
  /\ pc[p] = "called"
  /\ call[p].op = "_get_credits"
  /\ Finish(p, _get_credits(call[p].user_id))
  /\ UNCHANGED << txs, lock, now, sessions, customers, call, bal >>

ResolverNext == \E p \in Procs : call_get_credits(p)

SpecResolver == InitResolver /\ [][ResolverNext]_vars

\* ---- the payment flow of both users, by concurrent handlers, on a table
\* that holds two pending top-ups of u1 and one of u2
InitFulfill ==
  /\ txs = << [userId |-> "u1", amount |-> 1,
               runningBalance |-> Some(1), type |-> "TOP_UP",
               isActive |-> FALSE, transactionKey |-> Some(1), createdAt |-> 0],
              [userId |-> "u1", amount |-> MaxAmount,
               runningBalance |-> Some(MaxAmount), type |-> "TOP_UP",
               isActive |-> FALSE, transactionKey |-> Some(2), createdAt |-> 1],
              [userId |-> "u2", amount |-> 1,
               runningBalance |-> Some(1), type |-> "TOP_UP",
               isActive |-> FALSE, transactionKey |-> Some(3), createdAt |-> 2] >>
  /\ lock = [u \in Users |-> "free"]
  /\ now = 3
  /\ sessions = << "unpaid", "unpaid", "unpaid" >>
  /\ customers = Users
  /\ pc = [p \in Procs |-> "idle"]
  /\ call = [p \in Procs |-> NoCall]
  /\ bal = [p \in Procs |-> 0]
  /\ ret = [p \in Procs |-> NoRet]

\* the steps of a handler inside fulfill_checkout
FulfillStep(p) ==
  \/ retrieve_session(p)
  \/ enable_transaction_find(p)
  \/ enable_transaction_lock(p)
  \/ enable_transaction_update(p)

FulfillNext ==
  \/ \E p \in Procs, session_id \in SessionArgs, user_id \in UserArgs(Users) :
        fulfill_checkout(p, session_id, user_id)
  \/ \E p \in Procs : FulfillStep(p) \/ Return(p)
  \/ Gateway

SpecFulfill == InitFulfill /\ [][FulfillNext]_vars

\* ---- one fulfill_checkout of a paid top-up of amount t by handler p1, while
\* handler p2 serves spend_credits calls of the same user, from a balance B
InitActivate ==
  /\ \E B \in 1..MaxAmount, t \in 1..MaxAmount :
        txs = << [userId |-> "u1", amount |-> B, runningBalance |-> Some(B),
                  type |-> "TOP_UP", isActive |-> TRUE, transactionKey |-> None,
                  createdAt |-> 0],
                 [userId |-> "u1", amount |-> t, runningBalance |-> Some(B + t),
                  type |-> "TOP_UP", isActive |-> FALSE, transactionKey |-> Some(1),
                  createdAt |-> 1] >>
  /\ lock = [u \in Users |-> "free"]
  /\ now = 2
  /\ sessions = << "paid" >>
  /\ customers = {"u1"}
  /\ pc = [p \in Procs |-> "idle"]
  /\ call = [p \in Procs |-> NoCall]
  /\ bal = [p \in Procs |-> 0]
  /\ ret = [p \in Procs |-> NoRet]

ActivateNext ==
  \/ fulfill_checkout("p1", Some(1), None)
  \/ FulfillStep("p1")
  \/ \E k \in DOMAIN Invocations : Room(MaxActivateTx) /\ Spend("p2", "u1", Invocations[k])
  \/ LedgerStep("p2")

SpecActivate == InitActivate /\ [][ActivateNext]_vars

\* ---- two debits against a balance B, each handler serving one call
InitDebits ==
  /\ \E B \in 1..MaxAmount :
        txs = << [userId |-> "u1", amount |-> B, runningBalance |-> Some(B),
                  type |-> "TOP_UP", isActive |-> TRUE, transactionKey |-> None,
                  createdAt |-> 0] >>
  /\ lock = [u \in Users |-> "free"]
  /\ now = 1
  /\ sessions = << >>
  /\ customers = {}
  /\ pc = [p \in Procs |-> "idle"]
  /\ call = [p \in Procs |-> NoCall]
  /\ bal = [p \in Procs |-> 0]
  /\ ret = [p \in Procs |-> NoRet]

DebitsNext ==
  \E p \in Procs :
     \/ \E k \in DOMAIN Invocations : Spend(p, "u1", Invocations[k])
     \/ add_transaction_lock(p)
     \/ add_transaction_create(p)

SpecDebits == InitDebits /\ [][DebitsNext]_vars

\* ---------------------------------------------------------------------
\* The claims
\* ---------------------------------------------------------------------
ActiveRows(user_id) == { i \in DOMAIN txs : txs[i].userId = user_id /\ txs[i].isActive }
Quiet == \A p \in Procs : pc[p] \in {"idle", "done"}
IsTopUpOfSession(i) == txs[i].type = "TOP_UP" /\ txs[i].transactionKey # None

\* C1: once every call has finished, the balance of a user whose checkout
\* session was activated is the balance without that top-up plus its amount,
\* the amount counted once, however the fulfill_checkout calls interleaved.
C1_ReconciledExactlyOnce ==
  Quiet =>
    \A i \in DOMAIN txs :
       (IsTopUpOfSession(i) /\ txs[i].isActive) =>
          Balance(txs[i].userId) =
             SumAmount(ActiveRows(txs[i].userId) \ {i}) + txs[i].amount

\* C2: of two concurrent debits a and b against balance B with a <= B, b <= B
\* and a + b > B, exactly one succeeds and the other raises the insufficient
\* balance error, and the final balance is B - a or B - b.
C2_ExactlyOneDebitSucceeds ==
  LET B == Val(txs[1].runningBalance)
      a == -call["p1"].amount
      b == -call["p2"].amount
  IN (/\ pc["p1"] = "done" /\ pc["p2"] = "done"
      /\ call["p1"].op = "spend_credits" /\ call["p2"].op = "spend_credits"
      /\ a <= B /\ b <= B /\ a + b > B)
     => \/ /\ ret["p1"] = "ok" /\ ret["p2"] = "InsufficientBalance"
           /\ Balance("u1") = B - a
        \/ /\ ret["p2"] = "ok" /\ ret["p1"] = "InsufficientBalance"
           /\ Balance("u1") = B - b

C2_Witness ==
  /\ pc["p1"] = "done" /\ pc["p2"] = "done"
  /\ ret["p1"] = "InsufficientBalance" /\ ret["p2"] = "ok"
  /\ call["p1"].amount = -1 /\ call["p2"].amount = -2
  /\ Val(txs[1].runningBalance) = 2
  /\ Balance("u1") = 0

\* C3: no debit that would make the balance negative has succeeded: every
\* row of a debit carries a running balance >= 0 and no balance is negative.
C3_NoNegativeBalance ==
  /\ \A i \in DOMAIN txs : txs[i].amount < 0 => Val(txs[i].runningBalance) >= 0
  /\ \A u \in Users : Balance(u) >= 0

C3_Witness ==
  /\ \E i \in DOMAIN txs : txs[i].type = "USAGE" /\ Val(txs[i].runningBalance) = 0
  /\ \E p \in Procs : pc[p] = "done" /\ ret[p] = "InsufficientBalance"

\* C4: through every sequence of operations, one call after the other, the
\* resolved balance of a user is the sum of the amounts of the user's active
\* transactions.
C4_BalanceIsSumOfActive ==
  \A u \in Users : Balance(u) = SumAmount(ActiveRows(u))

C4_Witness ==
  /\ Quiet
  /\ MonthOf(now) > 0
  /\ \E i, j, k \in DOMAIN txs :
        /\ txs[i].type = "USAGE"
        /\ IsTopUpOfSession(j) /\ txs[j].isActive
        /\ txs[k].type = "TOP_UP" /\ txs[k].transactionKey = None
        /\ MonthOf(txs[k].createdAt) < MonthOf(txs[i].createdAt)

WrittenActive ==
  { i \in DOMAIN txs' : /\ txs'[i].isActive
                        /\ (i \notin DOMAIN txs \/ txs'[i] # txs[i]) }

ActiveSession(transaction_key) ==
  \E i \in DOMAIN txs : txs[i].transactionKey = transaction_key /\ txs[i].isActive

\* handler p takes the call fulfill_checkout(session_id = s) in this step, the
\* transaction of session s being active already
RefulfillBy(p) ==
  /\ pc[p] = "idle"
  /\ call'[p].op = "fulfill_checkout"
  /\ call'[p].transaction_key # None
  /\ ActiveSession(call'[p].transaction_key)

\* C6: the first fulfill_checkout of a paid session activates its transaction
\* and adds its amount to the balance; a second call for the same session ends
\* with the table and every balance as they were after the first.
C6_SecondFulfillChangesNothing ==
  [][\A p \in Procs :
        /\ RefulfillBy(p) =>
             /\ pc'[p] = "done"
             /\ txs' = txs
             /\ \A u \in Users : Balance(u)' = Balance(u)
        /\ (pc[p] = "en_update" /\ pc'[p] = "done") =>
             LET i == RowOf(call[p].transaction_key, call[p].user_id)
             IN /\ ~txs[i].isActive /\ txs'[i].isActive
                /\ Balance(call[p].user_id)' = Balance(call[p].user_id) + txs[i].amount]_vars

C6_Witness ==
  \E p \in Procs :
     /\ pc[p] = "done"
     /\ call[p].op = "fulfill_checkout"
     /\ ret[p] = "RecordNotFoundError"
     /\ ActiveSession(call[p].transaction_key)

\* C7: a fulfill_checkout call for a session whose transaction is active
\* already returns normally, without raising an error.
C7_RefulfillReturnsNormally ==
  [][\A p \in Procs : RefulfillBy(p) => ret'[p] = "ok"]_vars

\* C8: concurrent spend_credits and top_up_credits calls are linearizable: the
\* running balance of every row is the sum of the amounts of the rows written
\* up to it, and the balance is the sum of the amounts of the calls that
\* succeeded; no call computes its balance from one another call has replaced.
C8_NoLostUpdate ==
  /\ \A i \in DOMAIN txs :
        Val(txs[i].runningBalance) =
           SumAmount({ j \in DOMAIN txs : j <= i /\ txs[j].userId = txs[i].userId })
  /\ \A u \in Users :
        Balance(u) = SumAmount({ j \in DOMAIN txs : txs[j].userId = u })

\* a top-up waits for the lock a debit holds
C8_Witness ==
  /\ pc["p1"] = "add_write" /\ call["p1"].op = "spend_credits"
  /\ pc["p2"] = "add_lock" /\ call["p2"].op = "top_up_credits"
  /\ call["p1"].user_id = call["p2"].user_id
  /\ lock[call["p1"].user_id] = "p1"

\* the active transactions of a user
ActiveTx(user_id) == { txs[i] : i \in ActiveRows(user_id) }

\* C9: a pending transaction is never counted: a step that leaves the active
\* transactions of a user as they were, as the step of top_up_intent that
\* writes the pending row does, leaves the user's balance as it was.
C9_PendingNeverCounted ==
  [][\A u \in Users : ActiveTx(u)' = ActiveTx(u) => Balance(u)' = Balance(u)]_vars

\* top_up_intent has written a pending row whose running balance is not the balance
C9_Witness ==
  \E p \in Procs, i \in DOMAIN txs :
     /\ pc[p] = "done" /\ call[p].op = "top_up_intent" /\ ret[p] = "ok"
     /\ txs[i].transactionKey = call[p].transaction_key
     /\ ~txs[i].isActive
     /\ Val(txs[i].runningBalance) # Balance(txs[i].userId)

\* C10: the activation writes, as running balance of the top-up and as the
\* user's balance, the balance resolved at activation time plus the amount.
C10_ActivationUsesCurrentBalance ==
  [][\A p \in Procs :
        (pc[p] = "en_update" /\ pc'[p] = "done") =>
           LET u == call[p].user_id
               i == RowOf(call[p].transaction_key, u)
           IN /\ txs'[i].runningBalance = Some(Balance(u) + txs[i].amount)
              /\ Balance(u)' = Balance(u) + txs[i].amount]_vars

\* a top-up activated after a transaction written since top_up_intent created it
C10_Witness ==
  \E p \in Procs, i, j \in DOMAIN txs :
     /\ pc[p] = "done" /\ call[p].op = "fulfill_checkout" /\ ret[p] = "ok"
     /\ txs[i].transactionKey = call[p].transaction_key /\ txs[i].isActive
     /\ j > i /\ txs[j].userId = txs[i].userId /\ txs[j].isActive
     /\ txs[j].createdAt < txs[i].createdAt
     /\ txs[j].amount # 0
     /\ Val(txs[i].runningBalance) = Val(txs[j].runningBalance) + txs[i].amount

\* the payment statuses on which fulfill_checkout enables the transaction
Settled == {"paid", "no_payment_required"}

\* C11: fulfill_checkout activates a transaction only when the gateway reports
\* its session paid or no_payment_required; on any other status the call ends
\* with the transaction pending, the table and every balance as they were.
C11_ActivatesOnlyWhenSettled ==
  [][/\ \A i \in DOMAIN txs :
          (~txs[i].isActive /\ txs'[i].isActive) =>
             sessions[Val(txs[i].transactionKey)] \in Settled
     /\ \A p \in Procs :
          (/\ pc[p] = "ff_retrieve" /\ pc'[p] # "ff_retrieve"
           /\ sessions[Val(call[p].transaction_key)] \notin Settled)
          => /\ pc'[p] = "done"
             /\ txs' = txs
             /\ \A u \in Users : Balance(u)' = Balance(u)]_vars

\* a fulfill_checkout call has ended on an unpaid session, its row still pending
C11_Witness ==
  \E p \in Procs, i \in DOMAIN txs :
     /\ pc[p] = "done" /\ call[p].op = "fulfill_checkout" /\ ret[p] = "ok"
     /\ txs[i].transactionKey = call[p].transaction_key
     /\ ~txs[i].isActive
     /\ sessions[Val(txs[i].transactionKey)] = "unpaid"

\* C12: a debit rejected for insufficient balance ends with the error and
\* leaves no partial state: the table, the locks and every balance are as
\* they were before the step that rejects it.
C12_RejectedDebitLeavesNoState ==
  [][\A p \in Procs :
        (pc[p] # "done" /\ pc'[p] = "done" /\ ret'[p] = "InsufficientBalance")
        => /\ call[p].amount < 0
           /\ Balance(call[p].user_id) < -call[p].amount
           /\ txs' = txs
           /\ lock' = lock
           /\ \A u \in Users : Balance(u)' = Balance(u)]_vars

\* a debit of 2 was rejected against a balance of 1
C12_Witness ==
  \E p \in Procs :
     /\ pc[p] = "done" /\ ret[p] = "InsufficientBalance"
     /\ call[p].op = "spend_credits" /\ call[p].amount = -2
     /\ Balance(call[p].user_id) = 1

\* both of session_id and user_id, or neither
BadFulfillArgs(session_id, user_id) ==
  (session_id = None /\ user_id = None) \/ (session_id # None /\ user_id # None)

\* C14: fulfill_checkout called with both session_id and user_id, or with
\* neither, ends at once with the validation error: no row is looked up, no
\* gateway session retrieved, and the table, the sessions and the locks are
\* as they were.
C14_BadArgumentsRejected ==
  [][\A p \in Procs, session_id \in SessionArgs, user_id \in UserArgs(Users) :
        (fulfill_checkout(p, session_id, user_id) /\ BadFulfillArgs(session_id, user_id))
        => /\ pc'[p] = "done"
           /\ ret'[p] = "ValueError"
           /\ txs' = txs /\ sessions' = sessions /\ lock' = lock]_vars

\* the call was rejected though a pending top-up matched both arguments
C14_Witness ==
  \E p \in Procs :
     /\ pc[p] = "done" /\ ret[p] = "ValueError"
     /\ call[p].op = "fulfill_checkout"
     /\ call[p].transaction_key # None /\ call[p].user_id # "none"
     /\ PendingTopUps(call[p].transaction_key, Some(call[p].user_id)) # {}

\* the positions at which a handler has a gateway call in progress
GatewayCall == {"ti_session", "ff_retrieve"}

\* C20: no handler holds a user's lock while it has a gateway call in
\* progress: a lock is held only between its acquisition and the write.
C20_NoLockAcrossGateway ==
  \A p \in Procs, u \in Users :
     lock[u] = p => (pc[p] \notin GatewayCall /\ pc[p] \in {"add_write", "en_update"})

\* a handler retrieves a session while another handler holds the user's lock
C20_Witness ==
  \E p, q \in Procs :
     /\ pc[p] = "ff_retrieve"
     /\ lock[call[p].user_id] = q
     /\ q # p

\* C13, the part of top_up_credits: a negative amount ends the call at once
\* with the validation error, the table as it was.  And for both operations:
\* no transaction of a top-up, active or pending, has a negative amount.
C13_NoNegativeTopUp ==
  \A i \in DOMAIN txs : txs[i].type = "TOP_UP" => txs[i].amount >= 0

\* C15: a gateway call that fails ends top_up_intent or fulfill_checkout with
\* the gateway's error, without another try, and the call has not written:
\* the steps up to the gateway call and the failing step leave the table, the
\* locks and every balance as they were.
C15_GatewayErrorLeavesLedger ==
  [][\A p \in Procs :
        /\ (pc[p] = "idle" /\ pc'[p] \in GatewayCall) => txs' = txs
        /\ (pc[p] # "done" /\ pc'[p] = "done" /\ ret'[p] = "StripeError")
           => /\ pc[p] \in GatewayCall \cup {"idle"}
              /\ txs' = txs
              /\ lock' = lock
              /\ sessions' = sessions
              /\ \A u \in Users : Balance(u)' = Balance(u)]_vars

\* the retrieval of a paid session failed, its row still pending, the balance kept
C15_Witness ==
  \E p \in Procs, i \in DOMAIN txs :
     /\ pc[p] = "done" /\ ret[p] = "StripeError" /\ call[p].op = "fulfill_checkout"
     /\ txs[i].transactionKey = call[p].transaction_key
     /\ ~txs[i].isActive
     /\ sessions[Val(txs[i].transactionKey)] = "paid"
     /\ Balance(txs[i].userId) > 0

\* the block of the invocation is registered and has no cost schedule, or no
\* rule of its schedule matches the input
NoCost(inv) ==
  /\ get_block(inv.block_id) # None
  /\ \/ inv.block_id \notin DOMAIN BLOCK_COSTS
     \/ \A i \in DOMAIN BLOCK_COSTS[inv.block_id] :
           ~_is_cost_filter_match(BLOCK_COSTS[inv.block_id][i].cost_filter, inv.input_data)

IsRefill(t) == t.transactionKey # None /\ Val(t.transactionKey)[1] = "MONTHLY-CREDIT-TOP-UP"
RefillRows(user_id, month) ==
  { i \in DOMAIN txs : /\ txs[i].userId = user_id
                       /\ IsRefill(txs[i])
                       /\ MonthOf(txs[i].createdAt) = month }

\* C17: when a get_credits call of the Beta policy ends, the user has exactly
\* one refill transaction of the month, of the configured amount, whatever
\* calls came before it in the month.
C17_FirstCallRefills ==
  [][\A p \in Procs :
        (pc[p] # "done" /\ pc'[p] = "done" /\ call'[p].op = "get_credits")
        => LET refills == { t \in { txs'[i] : i \in DOMAIN txs' } :
                              /\ t.userId = call'[p].user_id
                              /\ IsRefill(t)
                              /\ MonthOf(t.createdAt) = MonthOf(now) }
           IN /\ Cardinality(refills) = 1
              /\ \A t \in refills : t.amount = RefillAmount]_vars

\* C18: a get_credits call that begins in a month in which the user's refill
\* exists ends at once with the balance: it creates no transaction and leaves
\* the table and the user's balance as they were.
C18_SecondCallChangesNothing ==
  [][\A p \in Procs, u \in Users :
        (/\ pc[p] = "idle" /\ call'[p].op = "get_credits" /\ call'[p].user_id = u
         /\ RefillRows(u, MonthOf(now)) # {})
        => /\ pc'[p] = "done"
           /\ txs' = txs
           /\ bal'[p] = Balance(u)
           /\ Balance(u)' = Balance(u)]_vars

\* a call has returned a balance that a debit made after the month's refill
C18_Witness ==
  \E p \in Procs, i, j \in DOMAIN txs :
     /\ pc[p] = "done" /\ call[p].op = "get_credits" /\ call[p].transaction_key = None
     /\ i \in RefillRows(call[p].user_id, MonthOf(now))
     /\ j > i /\ txs[j].type = "USAGE" /\ txs[j].userId = call[p].user_id
     /\ bal[p] = Val(txs[j].runningBalance)
     /\ bal[p] # RefillAmount

\* C19: however concurrent get_credits calls interleave, a user has at most
\* one refill transaction in a calendar month.
C19_OneRefillPerMonth ==
  \A i, j \in DOMAIN txs :
     (/\ IsRefill(txs[i]) /\ IsRefill(txs[j])
      /\ txs[i].userId = txs[j].userId
      /\ MonthOf(txs[i].createdAt) = MonthOf(txs[j].createdAt))
     => i = j


\* the rows a step creates or updates
Written == { i \in DOMAIN txs' : i \notin DOMAIN txs \/ txs'[i] # txs[i] }

\* C27: every step that creates or updates a transaction carrying a running
\* balance is taken by the handler that holds the lock of the transaction's
\* user, in the locked part of a helper method, under every policy.
C27_WritesUnderLock ==
  [][\A i \in Written :
        txs'[i].runningBalance # None
        => \E p \in Procs : /\ lock[txs'[i].userId] = p
                            /\ pc[p] \in {"add_write", "en_update"}
                            /\ pc'[p] = "done"]_vars

\* C28: a pending transaction has no running balance; a running balance is
\* present on active transactions only.
C28_PendingHasNoRunningBalance ==
  \A i \in DOMAIN txs : ~txs[i].isActive => txs[i].runningBalance = None

\* C29: a transaction is never deleted, its user and amount never change, and
\* the only update it gets is the one that turns it from pending to active:
\* an active transaction stays as it is.
C29_OnlyThePendingToActiveFlip ==
  [][\A i \in DOMAIN txs :
        /\ i \in DOMAIN txs'
        /\ txs'[i].userId = txs[i].userId
        /\ txs'[i].amount = txs[i].amount
        /\ txs'[i] # txs[i] => (~txs[i].isActive /\ txs'[i].isActive)
        /\ txs[i].isActive => txs'[i] = txs[i]]_vars

\* C30: a handler whose operation has ended, normally or with an error of the
\* locked part, holds no lock: the lock is free for the next operation.
C30_LockReleasedOnExit ==
  \A p \in Procs, u \in Users : pc[p] \in {"idle", "done"} => lock[u] # p

\* a debit was rejected in the locked part and another handler has taken the
\* same user's lock since
C30_Witness ==
  \E p, q \in Procs :
     /\ pc[p] = "done" /\ ret[p] = "InsufficientBalance"
     /\ q # p /\ lock[call[p].user_id] = q
     /\ call[q].user_id = call[p].user_id

\* C21: under fair scheduling, every operation that waits for a user's lock
\* eventually gets it and eventually ends, whatever the other handler does
\* for the same or for another user.
C21_LockedOperationsTerminate ==
  \A p \in Procs : (pc[p] \in {"add_lock", "en_lock"}) ~> (pc[p] = "done")

\* an activation waits for the lock a handler holds for the same user
C21_Witness ==
  \E p, q \in Procs :
     /\ pc[p] = "en_lock"
     /\ q # p /\ lock[call[p].user_id] = q

\* C22: the lock is per user: a handler that wants the lock of user v takes it
\* whenever v's lock is free, whoever holds the lock of another user, and a
\* handler that holds a lock completes its write.
C22_LockIsPerUser ==
  \A q \in Procs :
     /\ (pc[q] = "add_lock" /\ lock[call[q].user_id] = "free")
        => ENABLED add_transaction_lock(q)
     /\ (pc[q] = "en_lock" /\ lock[call[q].user_id] = "free")
        => ENABLED enable_transaction_lock(q)
     /\ pc[q] = "add_write" => ENABLED add_transaction_create(q)
     /\ pc[q] = "en_update" => ENABLED enable_transaction_update(q)

\* the locks of two users are held by two handlers at once, one of them in an
\* activation
C22_Witness ==
  /\ lock["u1"] \in Procs /\ lock["u2"] \in Procs
  /\ lock["u1"] # lock["u2"]
  /\ \E p \in Procs : pc[p] = "en_update"

\* what each operation of the Disabled policy returns
DisabledValue(op) ==
  CASE op \in {"get_credits", "spend_credits"} -> "0"
    [] op = "top_up_intent" -> ""
    [] op \in {"top_up_credits", "fulfill_checkout"} -> "None"
    [] OTHER -> NoRet

\* C23: under the Disabled policy every operation ends in one step with its
\* fixed value, 0, the empty string or nothing, and leaves the table, the
\* locks, the gateway's sessions and customers as they were, whatever its
\* arguments.
C23_DisabledIsNoOp ==
  [][\A p \in Procs :
        (pc[p] = "idle" /\ pc'[p] # "idle")
        => /\ pc'[p] = "done"
           /\ ret'[p] = DisabledValue(call'[p].op)
           /\ txs' = txs /\ lock' = lock /\ now' = now
           /\ sessions' = sessions /\ customers' = customers]_vars

\* fulfill_checkout has returned for a paid session whose top-up is still pending
C23_Witness ==
  \E p \in Procs, i \in DOMAIN txs :
     /\ pc[p] = "done" /\ call[p].op = "fulfill_checkout" /\ ret[p] = "None"
     /\ call[p].transaction_key = txs[i].transactionKey
     /\ call[p].user_id = "none"
     /\ ~txs[i].isActive
     /\ sessions[Val(txs[i].transactionKey)] = "paid"

\* a call of _block_usage_cost, of _is_cost_filter_match, has returned to p
CostReturned(p) == pc[p] = "done" /\ call[p].op = "_block_usage_cost"
MatchReturned(p) == pc[p] = "done" /\ call[p].op = "_is_cost_filter_match"

\* the rules of a block, and the first of a list of rules, from its head on,
\* whose filter matches
RulesOf(block) == IF block \in DOMAIN BLOCK_COSTS THEN BLOCK_COSTS[block] ELSE << >>

RECURSIVE FirstMatch(_, _)
FirstMatch(rules, input_data) ==
  IF rules = << >> THEN None
  ELSE IF _is_cost_filter_match(Head(rules).cost_filter, input_data)
       THEN Some(Head(rules))
       ELSE FirstMatch(Tail(rules), input_data)

Winner(c) == FirstMatch(RulesOf(c.block), c.input_data)

\* the amount a rule charges for a call, a multiple of 1/Scale
Amount(rule, c) ==
  CASE rule.cost_type = "RUN" -> rule.cost_amount * Scale
    [] rule.cost_type = "SECOND" -> rule.cost_amount * c.run_time
    [] rule.cost_type = "BYTE" -> rule.cost_amount * c.data_size

\* C24: the first rule of the block's list whose filter matches the input
\* decides: the call returns that rule's filter and that rule's charge, be it 0,
\* whatever the later rules are; when no rule matches it returns 0 and the
\* empty filter.
C24_FirstMatchingRuleWins ==
  \A p \in Procs :
     CostReturned(p)
     => IF Winner(call[p]) = None
        THEN ret[p] = [cost |-> 0, filter |-> Dict({})]
        ELSE /\ ret[p].filter = Val(Winner(call[p])).cost_filter
             /\ ret[p].cost = Trunc(Amount(Val(Winner(call[p])), call[p]))

\* the first rule that matches charged 0 though a later rule matches too and
\* would have charged more
C24_Witness ==
  \E p \in Procs :
     /\ CostReturned(p)
     /\ Winner(call[p]) # None
     /\ ret[p].cost = 0
     /\ \E i \in DOMAIN RulesOf(call[p].block) :
           /\ RulesOf(call[p].block)[i] # Val(Winner(call[p]))
           /\ _is_cost_filter_match(RulesOf(call[p].block)[i].cost_filter,
                                    call[p].input_data)
           /\ Amount(RulesOf(call[p].block)[i], call[p]) >= Scale

\* the keys of a mapping, and the mapping without its keys outside ks
Keys(d) == { kv[1] : kv \in d.items }
Restrict(d, ks) == Dict({ kv \in d.items : kv[1] \in ks })
IsMapping(v) == v.kind = "dict"
\* a mapping whose values are non-empty strings
IsFlat(d) == IsMapping(d) /\ \A kv \in d.items : kv[2].kind = "str" /\ kv[2].str # ""

\* C25: a mapping filter matches a mapping input by its own keys alone, the
\* input's other keys ignored; a filter of non-empty strings matches exactly
\* the inputs that hold all its pairs; {model: gpt-4} matches {model: gpt-4,
\* temperature: 0.2} and not {model: gpt-3.5}; the empty filter matches every
\* mapping input.
C25_FilterIsStructuralSubset ==
  \A p \in Procs :
     (MatchReturned(p) /\ IsMapping(call[p].cost_filter) /\ IsMapping(call[p].input_data))
     => LET cost_filter == call[p].cost_filter
            input_data == call[p].input_data
        IN /\ ret[p] = _is_cost_filter_match(cost_filter,
                                             Restrict(input_data, Keys(cost_filter)))
           /\ IsFlat(cost_filter) => (ret[p] <=> cost_filter.items \subseteq input_data.items)
           /\ cost_filter = Dict({}) => ret[p]
           /\ cost_filter = Dict({<< "model", Str("gpt-4") >>})
              => /\ input_data = Dict({<< "model", Str("gpt-4") >>,
                                       << "temperature", Str("0.2") >>}) => ret[p]
                 /\ input_data = Dict({<< "model", Str("gpt-3.5") >>}) => ~ret[p]

\* {model: gpt-4} has matched {model: gpt-4, temperature: 0.2}
C25_Witness ==
  \E p \in Procs :
     /\ MatchReturned(p)
     /\ call[p].cost_filter = Dict({<< "model", Str("gpt-4") >>})
     /\ call[p].input_data = Dict({<< "model", Str("gpt-4") >>,
                                   << "temperature", Str("0.2") >>})
     /\ ret[p] = TRUE

\* c is x / Scale without its fractional part
TowardZero(c, x) ==
  /\ c \in Int
  /\ x >= 0 => (c >= 0 /\ c * Scale <= x /\ x < (c + 1) * Scale)
  /\ x < 0 => (c <= 0 /\ c * Scale >= x /\ x > (c - 1) * Scale)

\* C26: the rule that decides charges its cost_amount when its type is RUN,
\* cost_amount * run_time when SECOND and cost_amount * data_size when BYTE,
\* the product cut to the integer next to it toward zero.
C26_ChargeByCostType ==
  \A p \in Procs :
     (CostReturned(p) /\ Winner(call[p]) # None)
     => LET block_cost == Val(Winner(call[p]))
        IN /\ ret[p].cost \in Int
           /\ block_cost.cost_type = "RUN" => ret[p].cost = block_cost.cost_amount
           /\ block_cost.cost_type = "SECOND"
              => TowardZero(ret[p].cost, block_cost.cost_amount * call[p].run_time)
           /\ block_cost.cost_type = "BYTE"
              => TowardZero(ret[p].cost, block_cost.cost_amount * call[p].data_size)

\* a BYTE rule has charged for a product that is no whole number
C26_Witness ==
  \E p \in Procs :
     /\ CostReturned(p)
     /\ Winner(call[p]) # None
     /\ Val(Winner(call[p])).cost_type = "BYTE"
     /\ Val(Winner(call[p])).cost_amount > 1
     /\ (Val(Winner(call[p])).cost_amount * call[p].data_size) % Scale # 0
     /\ ret[p].cost > 0

\* the rows of user_id that count at as_of: active, not created after it
Counted(user_id, as_of) ==
  { i \in DOMAIN txs : txs[i].userId = user_id /\ txs[i].isActive /\ txs[i].createdAt <= as_of }

\* C31: the Balance Resolver returns the running balance and the creation time
\* of the user's latest active row that has a running balance and was not
\* created after as_of; when there is none, the sum of the amounts of the
\* user's active rows created from the start of as_of's month to as_of, 0
\* without such rows, and the "no snapshot" time.
C31_BalanceResolver ==
  \A p \in Procs :
     (pc[p] = "done" /\ call[p].op = "_get_credits")
     => LET snaps == { i \in Counted(call[p].user_id, now) : txs[i].runningBalance # None }
            month == { i \in Counted(call[p].user_id, now) :
                         txs[i].createdAt >= MonthStart(now) }
        IN IF snaps # {}
           THEN \E i \in snaps :
                   /\ \A j \in snaps : txs[j].createdAt <= txs[i].createdAt
                   /\ ret[p] = [balance |-> Val(txs[i].runningBalance),
                                time |-> txs[i].createdAt]
           ELSE ret[p] = [balance |-> SumAmount(month), time |-> DatetimeMin]

\* no row has a running balance: the resolver has summed this month's rows and
\* left out an active row of last month
C31_Witness ==
  \E p \in Procs :
     /\ pc[p] = "done" /\ call[p].op = "_get_credits"
     /\ ret[p].time = DatetimeMin
     /\ ret[p].balance = 2 * MaxAmount
     /\ Cardinality(Counted(call[p].user_id, now)) = 3

\* the values that count as unset: None, the empty string, the empty mapping, 0
Empty(v) == v \in { NoneVal, Str(""), Dict({}), Num("0") }

\* C32: a mapping filter matches when each of its keys does. A key whose
\* filter value is empty matches an input that lacks the key or holds an empty
\* value for it; a key whose filter value is not empty matches no such input;
\* a filter value that is no mapping matches an equal input value only, empty
\* values being equal to each other; a mapping filter value is matched against
\* a mapping input value by the same rule. A filter that is no mapping matches
\* the input equal to it.
C32_EmptyValuesAreEqual ==
  \A p \in Procs :
     MatchReturned(p)
     => LET cost_filter == call[p].cost_filter
            input_data == call[p].input_data
        IN IF ~IsMapping(cost_filter) \/ ~IsMapping(input_data)
           THEN ret[p] <=> cost_filter = input_data
           ELSE /\ ret[p] <=> \A kv \in cost_filter.items :
                                 _is_cost_filter_match(Dict({kv}), input_data)
                /\ \A kv \in cost_filter.items :
                      LET v == kv[2]
                          w == Get(input_data, kv[1])
                      IN cost_filter.items = {kv}
                         => /\ (Empty(v) /\ Empty(w)) => ret[p]
                            /\ (~Empty(v) /\ Empty(w)) => ~ret[p]
                            /\ ~IsMapping(v) => (ret[p] <=> (v = w \/ (Empty(v) /\ Empty(w))))
                            /\ (IsMapping(v) /\ IsMapping(w) /\ ~Empty(w))
                               => (ret[p] <=> _is_cost_filter_match(v, w))

\* the filter {temperature: ""} has matched an input without the key temperature
C32_Witness ==
  \E p \in Procs :
     /\ MatchReturned(p)
     /\ call[p].cost_filter = Dict({<< "temperature", Str("") >>})
     /\ call[p].input_data = Dict({<< "model", Str("gpt-4") >>})
     /\ ret[p] = TRUE

\* the row of the transaction that handler p's fulfill_checkout has found
Found(p, i) ==
  /\ txs[i].transactionKey = call[p].transaction_key
  /\ txs[i].userId = call[p].user_id

\* C33: fulfill_checkout(user_id = u) goes on with the pending TOP_UP row of u
\* created last, fulfill_checkout(session_id = s) with the pending TOP_UP row
\* keyed s; the call keeps to that row, and the one row it may change is that
\* row.
C33_FulfillsTheMostRecentPending ==
  [][\A p \in Procs :
        /\ \A u \in Users :
              (fulfill_checkout(p, None, Some(u)) /\ pc'[p] = "ff_retrieve")
              => \E i \in DOMAIN txs :
                    /\ txs[i].userId = u /\ txs[i].type = "TOP_UP" /\ ~txs[i].isActive
                    /\ \A j \in DOMAIN txs :
                          (txs[j].userId = u /\ txs[j].type = "TOP_UP" /\ ~txs[j].isActive)
                          => txs[j].createdAt <= txs[i].createdAt
                    /\ call'[p].user_id = u
                    /\ call'[p].transaction_key = txs[i].transactionKey
        /\ \A s \in DOMAIN sessions :
              (fulfill_checkout(p, Some(s), None) /\ pc'[p] = "ff_retrieve")
              => \E i \in DOMAIN txs :
                    /\ txs[i].transactionKey = Some(s)
                    /\ txs[i].type = "TOP_UP" /\ ~txs[i].isActive
                    /\ call'[p].user_id = txs[i].userId
                    /\ call'[p].transaction_key = Some(s)
        /\ (pc[p] \in {"ff_retrieve", "en_find", "en_lock", "en_update"}
            /\ call[p].op = "fulfill_checkout")
           => /\ call'[p].user_id = call[p].user_id
              /\ call'[p].transaction_key = call[p].transaction_key
              /\ pc'[p] # pc[p]
                 => \A i \in DOMAIN txs : txs'[i] # txs[i] => Found(p, i)]_vars

\* a call has activated the later of u1's two pending top-ups; the earlier one
\* and the one of u2, both paid, are pending still
C33_Witness ==
  \E p \in Procs :
     /\ pc[p] = "done" /\ call[p].op = "fulfill_checkout"
     /\ call[p].user_id = "u1" /\ call[p].transaction_key = Some(2)
     /\ txs[2].isActive /\ ~txs[1].isActive /\ ~txs[3].isActive
     /\ sessions[1] = "paid" /\ sessions[3] = "paid"
     /\ \A q \in Procs : q # p => pc[q] = "idle"

\* the debits of user_id that succeeded: each has written a USAGE row
Debits(user_id) == { i \in DOMAIN txs : txs[i].userId = user_id /\ txs[i].type = "USAGE" }

\* C34: when the one fulfill_checkout of a paid top-up of t has ended and no
\* spend_credits is under way, the resolved balance of the user is the balance
\* B it started from, plus t, minus the costs of the debits that succeeded,
\* however the steps of the calls were interleaved.
C34_ActivationAndDebitsAllCount ==
  (pc["p1"] = "done" /\ pc["p2"] \in {"idle", "done"})
  => /\ ret["p1"] = "ok"
     /\ txs[2].isActive
     /\ Balance("u1") = txs[1].amount + txs[2].amount + SumAmount(Debits("u1"))

\* the top-up was activated between two debits that succeeded
C34_Witness ==
  /\ pc["p1"] = "done" /\ pc["p2"] = "done" /\ ret["p2"] = "ok"
  /\ txs[2].isActive
  /\ \E i, j \in Debits("u1") :
        txs[i].createdAt < txs[2].createdAt /\ txs[2].createdAt < txs[j].createdAt

\* the refill transactions of user_id, and the rows of user_id created after row r
Refills(user_id) == { i \in DOMAIN txs : txs[i].userId = user_id /\ IsRefill(txs[i]) }
RowsAfter(user_id, r) ==
  { i \in DOMAIN txs : txs[i].userId = user_id /\ txs[i].createdAt > txs[r].createdAt }

\* C35: under the Beta policy, once the calls have ended, the balance of a user
\* whose refill is followed by debits alone is the refill amount minus the
\* costs of those debits: no interleaving of the get_credits call that creates
\* the refill with a spend_credits call loses the refill.
C35_RefillIsNotLost ==
  \A u \in Users :
     (/\ Quiet /\ Refills(u) # {}
      /\ \A i \in RowsAfter(u, MostRecent(Refills(u))) : txs[i].type = "USAGE")
     => Balance(u) = RefillAmount + SumAmount(RowsAfter(u, MostRecent(Refills(u))))

\* C36: the step of get_credits that creates a refill writes it with the
\* configured amount as its running balance, returns that amount, and leaves
\* the user with that amount as the resolved balance, whatever the balance was.
C36_RefillSetsTheBalance ==
  [][\A p \in Procs, u \in Users :
        (beta_refill_create(p) /\ call[p].user_id = u /\ Len(txs') = Len(txs) + 1)
        => /\ IsRefill(txs'[Len(txs')])
           /\ txs'[Len(txs')].runningBalance = Some(RefillAmount)
           /\ bal'[p] = RefillAmount
           /\ Balance(u)' = RefillAmount]_vars

\* a refill has just been created for a user whose balance was neither 0 nor
\* the refill amount, and the balance is the refill amount
C36_Witness ==
  \E p \in Procs :
     /\ pc[p] = "done" /\ call[p].op = "get_credits" /\ bal[p] = RefillAmount
     /\ Len(txs) >= 2
     /\ IsRefill(txs[Len(txs)]) /\ txs[Len(txs)].userId = call[p].user_id
     /\ txs[Len(txs) - 1].userId = call[p].user_id
     /\ txs[Len(txs) - 1].isActive
     /\ txs[Len(txs) - 1].runningBalance \notin {Some(0), Some(RefillAmount)}
     /\ Balance(call[p].user_id) = RefillAmount

\* C37: under the Standard policy the passing of a month boundary, no
\* transaction being written, leaves the resolved balance of every user as it
\* was: the latest snapshot counts whatever its month.
C37_BalanceCarriesOverMonths ==
  [][Tick => \A u \in Users : Balance(u)' = Balance(u)]_vars

\* a new month has begun, all the transactions are of an earlier month, and
\* the user has the balance that top-ups and debits left
C37_Witness ==
  /\ MonthOf(now) > 0
  /\ \A i \in DOMAIN txs : MonthOf(txs[i].createdAt) < MonthOf(now)
  /\ \E i \in DOMAIN txs : txs[i].type = "USAGE"
  /\ Balance("u1") > 0
  /\ \E p \in Procs : pc[p] = "done" /\ call[p].op = "get_credits" /\ bal[p] = Balance("u1")

\* C38: a debit is rejected, for insufficient balance, when its absolute
\* amount is larger than the balance and only then; a debit of exactly the
\* balance is accepted, its transaction carries the running balance 0, and the
\* resolved balance after it is 0.
C38_DebitOfTheWholeBalance ==
  [][\A p \in Procs, u \in Users :
        /\ (add_transaction_lock(p) /\ call[p].user_id = u /\ call[p].amount < 0)
           => /\ pc'[p] = "add_write" <=> -call[p].amount <= Balance(u)
              /\ (pc'[p] = "done" /\ ret'[p] = "InsufficientBalance")
                 <=> -call[p].amount > Balance(u)
        /\ (/\ add_transaction_create(p) /\ call[p].user_id = u
            /\ call[p].amount < 0 /\ -call[p].amount = Balance(u))
           => /\ Len(txs') = Len(txs) + 1
              /\ txs'[Len(txs')].amount = call[p].amount
              /\ txs'[Len(txs')].runningBalance = Some(0)
              /\ Balance(u)' = 0]_vars

\* a debit of the whole balance has been written
C38_Witness ==
  \E p \in Procs :
     /\ pc[p] = "done" /\ ret[p] = "ok" /\ call[p].op = "spend_credits"
     /\ Len(txs) >= 2
     /\ txs[Len(txs)].type = "USAGE"
     /\ txs[Len(txs)].amount < 0
     /\ txs[Len(txs) - 1].runningBalance = Some(-txs[Len(txs)].amount)
     /\ txs[Len(txs)].runningBalance = Some(0)
     /\ Balance(call[p].user_id) = 0

=============================================================================
